---- MODULE Spec2Model ----
(***************************************************************************)
(* Transaction fillers of the provider crate: FromFiller (from_filler.rs)   *)
(* and GasPriceFiller (gas_price.rs).                                       *)
(*                                                                          *)
(* One FromFiller and one GasPriceFiller instance are constructed (Init).   *)
(* Callers then invoke status / prepare / fill on them in any order, with   *)
(* any transaction value; GasPriceFiller::prepare is an async fn, so        *)
(* several calls of it on the one instance are in flight at once and        *)
(* interleave at its single suspension point, the provider query.           *)
(*                                                                          *)
(* Spec          the calls above, in any order and interleaving.            *)
(* SpecPipeline  one pipeline run (status, prepare, fill per pass) over     *)
(*               both fillers, beside prepare calls of other runs.          *)
(* SpecClones    GasPriceFiller values made by new and clone, and prepare   *)
(*               calls on them.                                             *)
(***************************************************************************)
EXTENDS Integers, FiniteSets, Sequences, TLC

\* ---------------------------------------------------------------- bounds

\* Number of GasPriceFiller::prepare calls made on the instance.
NumCalls == 2

Calls == 1..NumCalls

\* Passes of a pipeline run before it gives up (the fixed iteration bound).
MaxPasses == 2

\* Prepare calls of other pipeline runs that go on beside the run followed.
MaxRivals == 1

\* GasPriceFiller values made by new and clone.
MaxFillers == 3

\* Provider queries made by the prepare calls on those values.
MaxQueries == 3

\* ---------------------------------------------------------------- values

\* Option<T>: None is the empty sequence, Some(x) the one-element sequence.
None == << >>
Some(x) == <<x>>
Option(S) == {None} \cup {Some(x) : x \in S}
is_some(o) == o # None
is_none(o) == o = None
unwrap(o) == o[1]

\* alloy_primitives::Address; "ZERO" is Address::ZERO, the Default of FromFiller.
Addresses == {"ZERO", "A"}

\* u128 gas prices a caller or the provider can supply.
Prices == {41, 42}

\* Transport errors provider.get_gas_price() can fail with.
Errors == {"transport", "malformed"}

\* SendableTx<N>: Builder(N::TransactionRequest) or Envelope(N::TxEnvelope).
\* The fields are the two the fillers read and write.
SendableTx == [form : {"Builder", "Envelope"},
               from : Option(Addresses),
               gas_price : Option(Prices)]

\* TransportResult<T>
Ok(v) == [tag |-> "Ok", val |-> Some(v), err |-> None]
Err(e) == [tag |-> "Err", val |-> None, err |-> Some(e)]
\* The future was dropped before completing: nothing is returned.
Cancelled == [tag |-> "Cancelled", val |-> None, err |-> None]
NoResult == [tag |-> "Pending", val |-> None, err |-> None]

\* What provider.get_gas_price() can resolve to.
Replies == {Ok(p) : p \in Prices} \cup {Err(e) : e \in Errors}

\* ---------------------------------------------------------------- state

VARIABLES
    address,     \* FromFiller.0
    preset,      \* the argument GasPriceFiller::new was called with
    cell,        \* GasPriceFiller.0: the content of the Arc<OnceLock<u128>>
    tx,          \* the transaction value the callers pass around
    pc,          \* pc[c]: where prepare call c is
    reply,       \* reply[c]: what the provider query of call c resolved to
    ret,         \* ret[c]: what prepare call c returned
    asked,       \* asked[c]: provider queries issued by call c
    overlapped,  \* some prepare call started while another was in flight
    last,        \* the last call made: operation, inputs, cache before, result
    pipe,        \* the pipeline run followed: phase, pass, statuses, fillables
    arcs,        \* arcs[k]: content of the k-th Arc<OnceLock<u128>> allocated
    fillers,     \* fillers[i]: the i-th GasPriceFiller value, the Arc it holds
    hpc,         \* hpc[i]: where the prepare call on fillers[i] is
    hqueries     \* provider queries made by the calls on fillers

vars == <<address, preset, cell, tx, pc, reply, ret, asked, overlapped, last,
          pipe, arcs, fillers, hpc, hqueries>>

cloneVars == <<arcs, fillers, hpc, hqueries>>

prepareVars == <<pc, reply, ret, asked, overlapped>>

\* ---------------------------------------------------------------- OnceLock

\* OnceLock::get
OnceLock_get(lock) == lock

\* OnceLock::set: Ok(()) and the value stored when empty, Err(value) otherwise.
OnceLock_set(lock, value) == IF is_none(lock) THEN Some(value) ELSE lock

\* OnceLock::get_or_init(|| value): stores value when empty; the cell after it.
OnceLock_get_or_init(lock, value) == IF is_none(lock) THEN Some(value) ELSE lock

\* ---------------------------------------------------------------- FromFiller

FromFiller_new(a) == a

\* A status with the presence check the wrong way round.
FromFiller_status_inverted(self, t) ==
    IF is_some(t.from) THEN "Ready" ELSE "Finished"

FromFiller_status(self, t) ==
    IF is_some(t.from) THEN "Finished" ELSE "Ready"

FromFiller_prepare(self) == Ok("unit")

\* A fill that writes the sender without looking at the form of the value.
FromFiller_fill_any_form(self, fillable, t) ==
    Ok([t EXCEPT !.from = Some(self)])

\* A fill that takes the default address for "no address configured".
FromFiller_fill_skip_zero(self, fillable, t) ==
    IF t.form = "Builder" /\ self # "ZERO"
    THEN Ok([t EXCEPT !.from = Some(self)])
    ELSE Ok(t)

FromFiller_fill(self, fillable, t) ==
    IF t.form = "Builder"
    THEN Ok([t EXCEPT !.from = Some(self)])
    ELSE Ok(t)

\* ---------------------------------------------------------------- GasPriceFiller

\* A constructor that drops its argument.
GasPriceFiller_new_dropped(gas_price) == None

GasPriceFiller_new(gas_price) ==
    IF is_some(gas_price)
    THEN OnceLock_set(None, unwrap(gas_price))
    ELSE None

\* A fill with the presence check the wrong way round.
GasPriceFiller_fill_inverted(self, fillable, t) ==
    IF t.form = "Builder"
    THEN IF is_some(t.gas_price)
         THEN Ok([t EXCEPT !.gas_price = Some(fillable)])
         ELSE Ok(t)
    ELSE Ok(t)

\* A status that reports Finished once the cache holds a price.
GasPriceFiller_status_cached(self, t) ==
    IF is_some(t.gas_price) \/ is_some(self) THEN "Finished" ELSE "Ready"

GasPriceFiller_status(self, t) ==
    IF is_some(t.gas_price) THEN "Finished" ELSE "Ready"

\* A fill without the is_none check.
GasPriceFiller_fill_unchecked(self, fillable, t) ==
    IF t.form = "Builder"
    THEN Ok([t EXCEPT !.gas_price = Some(fillable)])
    ELSE Ok(t)

\* A fill that prefers the cached price to the fillable it is given.
GasPriceFiller_fill_cached(self, fillable, t) ==
    IF t.form = "Builder" /\ is_none(t.gas_price)
    THEN Ok([t EXCEPT !.gas_price =
                IF is_some(self) THEN self ELSE Some(fillable)])
    ELSE Ok(t)

GasPriceFiller_fill(self, fillable, t) ==
    IF t.form = "Builder"
    THEN IF is_none(t.gas_price)
         THEN Ok([t EXCEPT !.gas_price = Some(fillable)])
         ELSE Ok(t)
    ELSE Ok(t)

\* A first poll that never finds the cached value.
prepare_get_miss(self) == None

\* prepare, first poll: `match self.0.get().copied()`.
prepare_get(self) == OnceLock_get(self)

\* A resume that stores its own value whatever the cell holds (a plain store
\* in place of get_or_init).
prepare_resume_overwrite(self, r) ==
    IF r.tag = "Ok"
    THEN [cell |-> r.val, ret |-> Ok(unwrap(r.val))]
    ELSE [cell |-> self, ret |-> r]

\* A resume that takes the default price for a failed query
\* (unwrap_or_default in place of `?`).
prepare_resume_fallback(self, r) ==
    LET fetched == IF r.tag = "Ok" THEN unwrap(r.val) ELSE 0
        stored == OnceLock_get_or_init(self, fetched)
    IN [cell |-> stored, ret |-> Ok(unwrap(stored))]

\* A resume that returns the fetched price without caching it.
prepare_resume_uncached(self, r) ==
    IF r.tag = "Ok"
    THEN [cell |-> self, ret |-> Ok(unwrap(r.val))]
    ELSE [cell |-> self, ret |-> r]

\* A resume that returns the value it fetched, not the value stored.
prepare_resume_local(self, r) ==
    IF r.tag = "Ok"
    THEN [cell |-> OnceLock_get_or_init(self, unwrap(r.val)),
          ret |-> Ok(unwrap(r.val))]
    ELSE [cell |-> self, ret |-> r]

\* prepare, polled again after the await: `?` on the provider's reply r, then
\* get_or_init. The cell after the step and the value returned.
prepare_resume(self, r) ==
    IF r.tag = "Ok"
    THEN LET stored == OnceLock_get_or_init(self, unwrap(r.val)) IN
         [cell |-> stored, ret |-> Ok(unwrap(stored))]
    ELSE [cell |-> self, ret |-> r]

\* ---------------------------------------------------------------- calls

RECURSIVE SumTo(_, _)
SumTo(f, n) == IF n = 0 THEN 0 ELSE f[n] + SumTo(f, n - 1)

\* Calls of provider.get_gas_price() made so far.
Queries == SumTo(asked, NumCalls)

InFlight(c) == pc[c] \in {"await", "ready"}

\* The log entry of a call: the operation, the call it belongs to, and the
\* transaction, the cache and the query count it found.
Record(op, c, fillable, result) ==
    [op |-> op, call |-> c, before |-> tx, cell |-> cell, queries |-> Queries,
     fillable |-> fillable, ret |-> result]

\* No pipeline run is followed.
PipeOff ==
    [phase |-> "off", pass |-> 0, orig |-> None,
     flow |-> [from |-> "Finished", gas |-> "Finished"],
     unit |-> NoResult, gpc |-> "idle", greply |-> NoResult, gret |-> NoResult,
     todo |-> {}, filled |-> {}]

\* No GasPriceFiller value besides the one in cell is looked at.
NoClones ==
    /\ arcs = << >>
    /\ fillers = << >>
    /\ hpc = << >>
    /\ hqueries = 0

Init ==
    /\ address \in {FromFiller_new(a) : a \in Addresses}
    /\ preset \in Option(Prices)
    /\ cell = GasPriceFiller_new(preset)
    /\ tx \in SendableTx
    /\ pc = [c \in Calls |-> "idle"]
    /\ reply = [c \in Calls |-> NoResult]
    /\ ret = [c \in Calls |-> NoResult]
    /\ asked = [c \in Calls |-> 0]
    /\ overlapped = FALSE
    /\ last = [op |-> "new", call |-> 0, before |-> tx, cell |-> cell,
               queries |-> 0, fillable |-> None, ret |-> NoResult]
    /\ pipe = PipeOff
    /\ NoClones

\* status takes &N::TransactionRequest: only a builder can be passed.
FromStatus ==
    /\ tx.form = "Builder"
    /\ last' = Record("from.status", 0, None, FromFiller_status(address, tx))
    /\ UNCHANGED <<pipe, cloneVars, address, preset, cell, tx, prepareVars>>

FromPrepare ==
    /\ tx.form = "Builder"
    /\ last' = Record("from.prepare", 0, None, FromFiller_prepare(address))
    /\ UNCHANGED <<pipe, cloneVars, address, preset, cell, tx, prepareVars>>

FromFill ==
    /\ LET r == FromFiller_fill(address, "unit", tx) IN
        /\ last' = Record("from.fill", 0, None, r)
        /\ tx' = unwrap(r.val)
    /\ UNCHANGED <<pipe, cloneVars, address, preset, cell, prepareVars>>

GasStatus ==
    /\ tx.form = "Builder"
    /\ last' = Record("gas.status", 0, None, GasPriceFiller_status(cell, tx))
    /\ UNCHANGED <<pipe, cloneVars, address, preset, cell, tx, prepareVars>>

GasFill ==
    /\ \E f \in Prices :
        LET r == GasPriceFiller_fill(cell, f, tx) IN
        /\ last' = Record("gas.fill", 0, Some(f), r)
        /\ tx' = unwrap(r.val)
    /\ UNCHANGED <<pipe, cloneVars, address, preset, cell, prepareVars>>

\* First poll of prepare call c: the cache is read; on a hit the call returns,
\* on a miss provider.get_gas_price() is issued and the call suspends.
\* The calls are numbered in the order they are made.
PrepareStart(c) ==
    /\ pc[c] = "idle"
    /\ \A d \in Calls : d < c => pc[d] # "idle"
    /\ LET got == prepare_get(cell) IN
        IF is_some(got)
        THEN /\ pc' = [pc EXCEPT ![c] = "returned"]
             /\ ret' = [ret EXCEPT ![c] = Ok(unwrap(got))]
             /\ asked' = asked
             /\ last' = Record("gas.prepare.start", c, None, Ok(unwrap(got)))
        ELSE /\ pc' = [pc EXCEPT ![c] = "await"]
             /\ ret' = ret
             /\ asked' = [asked EXCEPT ![c] = @ + 1]
             /\ last' = Record("gas.prepare.start", c, None, NoResult)
    /\ overlapped' = (overlapped \/ \E d \in Calls : d # c /\ InFlight(d))
    /\ UNCHANGED <<pipe, cloneVars, address, preset, cell, tx, reply>>

\* The provider query of call c resolves; the call is not yet polled again.
ProviderReply(c) ==
    /\ pc[c] = "await"
    /\ \E r \in Replies :
        reply' = [reply EXCEPT ![c] = r]
    /\ pc' = [pc EXCEPT ![c] = "ready"]
    /\ last' = Record("provider.reply", c, None, NoResult)
    /\ UNCHANGED <<pipe, cloneVars, address, preset, cell, tx, ret, asked, overlapped>>

\* A resume that needs a lock which a suspended call keeps across its await.
PrepareResume_locked(c) ==
    /\ pc[c] = "ready"
    /\ \A d \in Calls \ {c} : pc[d] # "await"
    /\ LET out == prepare_resume(cell, reply[c]) IN
        /\ cell' = out.cell
        /\ ret' = [ret EXCEPT ![c] = out.ret]
        /\ last' = Record("gas.prepare.resume", c, None, out.ret)
    /\ pc' = [pc EXCEPT ![c] = "returned"]
    /\ UNCHANGED <<pipe, cloneVars, address, preset, tx, reply, asked, overlapped>>

\* Call c is polled again with the provider's reply.
PrepareResume(c) ==
    /\ pc[c] = "ready"
    /\ LET out == prepare_resume(cell, reply[c]) IN
        /\ cell' = out.cell
        /\ ret' = [ret EXCEPT ![c] = out.ret]
        /\ last' = Record("gas.prepare.resume", c, None, out.ret)
    /\ pc' = [pc EXCEPT ![c] = "returned"]
    /\ UNCHANGED <<pipe, cloneVars, address, preset, tx, reply, asked, overlapped>>

\* The future of call c is dropped while suspended in the provider query:
\* no code of prepare runs again.
PrepareCancel(c) ==
    /\ InFlight(c)
    /\ pc' = [pc EXCEPT ![c] = "returned"]
    /\ ret' = [ret EXCEPT ![c] = Cancelled]
    /\ last' = Record("gas.prepare.cancel", c, None, Cancelled)
    /\ UNCHANGED <<pipe, cloneVars, address, preset, cell, tx, reply, asked, overlapped>>

Next ==
    \/ FromStatus
    \/ FromPrepare
    \/ FromFill
    \/ GasStatus
    \/ GasFill
    \/ \E c \in Calls : PrepareStart(c)
    \/ \E c \in Calls : ProviderReply(c)
    \/ \E c \in Calls : PrepareResume(c)
    \/ \E c \in Calls : PrepareCancel(c)

Spec == Init /\ [][Next]_vars

\* ---------------------------------------------------------------- pipeline

\* One pipeline run over the sender and the gas-price filler on a builder it
\* owns: per pass, status on each filler, prepare for those that returned
\* Ready, then fill for those fillers; passes repeat until both report
\* Finished or MaxPasses passes were made; a failed prepare aborts the run.
\* Prepare calls of other runs (calls 1..MaxRivals) go on beside it.

PipeStart(t) ==
    [PipeOff EXCEPT !.phase = "status", !.orig = t]

InitPipeline ==
    /\ address \in {FromFiller_new(a) : a \in Addresses}
    /\ preset \in Option(Prices)
    /\ cell = GasPriceFiller_new(preset)
    /\ tx \in {t \in SendableTx : t.form = "Builder"}
    /\ pc = [c \in Calls |-> "idle"]
    /\ reply = [c \in Calls |-> NoResult]
    /\ ret = [c \in Calls |-> NoResult]
    /\ asked = [c \in Calls |-> 0]
    /\ overlapped = FALSE
    /\ last = [op |-> "new", call |-> 0, before |-> tx, cell |-> cell,
               queries |-> 0, fillable |-> None, ret |-> NoResult]
    /\ pipe = PipeStart(tx)
    /\ NoClones

pipeFrame == <<cloneVars, address, preset, pc, reply, ret, asked, overlapped, last>>

\* status on each filler; the run ends when both are Finished, or gives up
\* when the passes are used up; otherwise a pass begins.
PipeStatus ==
    /\ pipe.phase = "status"
    /\ LET flow == [from |-> FromFiller_status(address, tx),
                    gas |-> GasPriceFiller_status(cell, tx)]
           ready == {f \in {"from", "gas"} : flow[f] = "Ready"}
       IN pipe' = IF ready = {}
                  THEN [pipe EXCEPT !.flow = flow, !.phase = "done"]
                  ELSE IF pipe.pass >= MaxPasses
                  THEN [pipe EXCEPT !.flow = flow, !.phase = "exhausted"]
                  ELSE [pipe EXCEPT
                            !.flow = flow, !.phase = "prepare", !.pass = @ + 1,
                            !.unit = NoResult, !.gpc = "idle",
                            !.greply = NoResult, !.gret = NoResult,
                            !.todo = ready]
    /\ UNCHANGED <<pipeFrame, cell, tx>>

\* FromFiller::prepare of the pass.
PipePrepareFrom ==
    /\ pipe.phase = "prepare"
    /\ pipe.flow.from = "Ready"
    /\ pipe.unit = NoResult
    /\ pipe' = [pipe EXCEPT !.unit = FromFiller_prepare(address)]
    /\ UNCHANGED <<pipeFrame, cell, tx>>

\* GasPriceFiller::prepare of the pass, first poll.
PipePrepareGas ==
    /\ pipe.phase = "prepare"
    /\ pipe.flow.gas = "Ready"
    /\ pipe.gpc = "idle"
    /\ LET got == prepare_get(cell) IN
        pipe' = IF is_some(got)
                THEN [pipe EXCEPT !.gpc = "returned", !.gret = Ok(unwrap(got))]
                ELSE [pipe EXCEPT !.gpc = "await"]
    /\ UNCHANGED <<pipeFrame, cell, tx>>

\* The provider query of the run resolves.
PipeProviderReply ==
    /\ pipe.phase = "prepare"
    /\ pipe.gpc = "await"
    /\ \E r \in Replies :
        pipe' = [pipe EXCEPT !.gpc = "ready", !.greply = r]
    /\ UNCHANGED <<pipeFrame, cell, tx>>

\* GasPriceFiller::prepare of the pass, polled again; an error aborts the run.
PipeResumeGas ==
    /\ pipe.phase = "prepare"
    /\ pipe.gpc = "ready"
    /\ LET out == prepare_resume(cell, pipe.greply) IN
        /\ cell' = out.cell
        /\ pipe' = [pipe EXCEPT
                !.gpc = "returned", !.gret = out.ret,
                !.phase = IF out.ret.tag = "Ok" THEN @ ELSE "failed"]
    /\ UNCHANGED <<pipeFrame, tx>>

Prepared ==
    /\ pipe.phase = "prepare"
    /\ pipe.flow.from = "Ready" => pipe.unit.tag = "Ok"
    /\ pipe.flow.gas = "Ready" => pipe.gret.tag = "Ok"

\* What is left of the pass once filler f was filled.
AfterFill(f) ==
    [pipe EXCEPT
        !.todo = @ \ {f},
        !.filled = @ \cup {f},
        !.phase = IF pipe.todo \ {f} = {} THEN "status" ELSE @]

\* FromFiller::fill of the pass.
PipeFillFrom ==
    /\ Prepared
    /\ "from" \in pipe.todo
    /\ tx' = unwrap(FromFiller_fill(address, unwrap(pipe.unit.val), tx).val)
    /\ pipe' = AfterFill("from")
    /\ UNCHANGED <<pipeFrame, cell>>

\* GasPriceFiller::fill of the pass.
PipeFillGas ==
    /\ Prepared
    /\ "gas" \in pipe.todo
    /\ tx' = unwrap(GasPriceFiller_fill(cell, unwrap(pipe.gret.val), tx).val)
    /\ pipe' = AfterFill("gas")
    /\ UNCHANGED <<pipeFrame, cell>>

PipeRun ==
    \/ PipeStatus
    \/ PipePrepareFrom
    \/ PipePrepareGas
    \/ PipeProviderReply
    \/ PipeResumeGas
    \/ PipeFillFrom
    \/ PipeFillGas

Rivals == {c \in Calls : c <= MaxRivals}

NextPipeline ==
    \/ PipeStatus
    \/ PipePrepareFrom
    \/ PipePrepareGas
    \/ PipeProviderReply
    \/ PipeResumeGas
    \/ PipeFillFrom
    \/ PipeFillGas
    \/ \E c \in Rivals : PrepareStart(c)
    \/ \E c \in Rivals : ProviderReply(c)
    \/ \E c \in Rivals : PrepareResume(c)
    \/ \E c \in Rivals : PrepareCancel(c)

\* The executor polls a run that can make progress, and the provider answers
\* the run's query; nothing is assumed of the other runs.
SpecPipeline == InitPipeline /\ [][NextPipeline]_vars /\ WF_vars(PipeRun)

\* ---------------------------------------------------------------- clones

\* GasPriceFiller values made by new and by clone (derive(Clone)), and prepare
\* calls on them. A value is the Arc it holds: an index into arcs. root is
\* the value, made by new, that a value was cloned from (itself if made by new).

\* Arc::new(lock): a fresh allocation.
Arc_new(heap, lock) ==
    [heap |-> Append(heap, lock), ptr |-> Len(heap) + 1]

\* A clone that copies the cell into an allocation of its own.
GasPriceFiller_clone_deep(self, heap) ==
    Arc_new(heap, heap[self])

\* derive(Clone) on GasPriceFiller(Arc<..>): Arc::clone, the same allocation.
GasPriceFiller_clone(self, heap) ==
    [heap |-> heap, ptr |-> self]

Fillers == DOMAIN fillers

\* The content of the cell filler i holds.
CellOf(i) == arcs[fillers[i].arc]

SameFamily(i, j) == fillers[i].root = fillers[j].root

CloneRecord(op, i, result) ==
    [op |-> op, call |-> i, before |-> tx, cell |-> arcs, queries |-> hqueries,
     fillable |-> None, ret |-> result]

InitClones ==
    /\ address = FromFiller_new("ZERO")
    /\ preset = None
    /\ cell = GasPriceFiller_new(preset)
    /\ tx = [form |-> "Builder", from |-> None, gas_price |-> None]
    /\ pc = [c \in Calls |-> "idle"]
    /\ reply = [c \in Calls |-> NoResult]
    /\ ret = [c \in Calls |-> NoResult]
    /\ asked = [c \in Calls |-> 0]
    /\ overlapped = FALSE
    /\ last = [op |-> "new", call |-> 0, before |-> tx, cell |-> << >>,
               queries |-> 0, fillable |-> None, ret |-> NoResult]
    /\ pipe = PipeOff
    /\ NoClones

cloneFrame == <<address, preset, cell, tx, prepareVars, pipe>>

\* GasPriceFiller::new(gas_price)
FillerNew ==
    /\ Len(fillers) < MaxFillers
    /\ \E gas_price \in Option(Prices) :
        LET a == Arc_new(arcs, GasPriceFiller_new(gas_price)) IN
        /\ arcs' = a.heap
        /\ fillers' = Append(fillers, [arc |-> a.ptr, root |-> Len(fillers) + 1])
    /\ hpc' = Append(hpc, "idle")
    /\ last' = CloneRecord("clone.new", Len(fillers) + 1, NoResult)
    /\ UNCHANGED <<cloneFrame, hqueries>>

\* fillers[i].clone()
FillerClone ==
    /\ Len(fillers) < MaxFillers
    /\ \E i \in Fillers :
        LET a == GasPriceFiller_clone(fillers[i].arc, arcs) IN
        /\ arcs' = a.heap
        /\ fillers' = Append(fillers, [arc |-> a.ptr, root |-> fillers[i].root])
        /\ last' = CloneRecord("clone.clone", i, NoResult)
    /\ hpc' = Append(hpc, "idle")
    /\ UNCHANGED <<cloneFrame, hqueries>>

\* First poll of a prepare call on fillers[i].
FillerPrepareStart(i) ==
    /\ hpc[i] = "idle"
    /\ LET got == prepare_get(CellOf(i)) IN
        IF is_some(got)
        THEN /\ hpc' = hpc
             /\ hqueries' = hqueries
             /\ last' = CloneRecord("clone.prepare.start", i, Ok(unwrap(got)))
        ELSE /\ hqueries < MaxQueries
             /\ hpc' = [hpc EXCEPT ![i] = "await"]
             /\ hqueries' = hqueries + 1
             /\ last' = CloneRecord("clone.prepare.start", i, NoResult)
    /\ UNCHANGED <<cloneFrame, arcs, fillers>>

\* The provider query of the call on fillers[i] resolves and the call is
\* polled again.
FillerPrepareResume(i) ==
    /\ hpc[i] = "await"
    /\ \E r \in Replies :
        LET out == prepare_resume(CellOf(i), r) IN
        /\ arcs' = [arcs EXCEPT ![fillers[i].arc] = out.cell]
        /\ last' = [CloneRecord("clone.prepare.resume", i, out.ret)
                        EXCEPT !.fillable = r.val]
    /\ hpc' = [hpc EXCEPT ![i] = "idle"]
    /\ UNCHANGED <<cloneFrame, fillers, hqueries>>

NextClones ==
    \/ FillerNew
    \/ FillerClone
    \/ \E i \in Fillers : FillerPrepareStart(i)
    \/ \E i \in Fillers : FillerPrepareResume(i)

SpecClones == InitClones /\ [][NextClones]_vars

\* ---------------------------------------------------------------- claims

AllReturned == \A c \in Calls : pc[c] = "returned"

\* C1: FromFiller.fill on a builder whose sender is already set to B returns
\* the transaction with sender still B; it sets the sender (to the configured
\* address) only when the sender is absent.
C1_SenderKept ==
    (last.op = "from.fill" /\ last.before.form = "Builder")
        => IF is_some(last.before.from)
           THEN tx.from = last.before.from
           ELSE tx.from = Some(address)

\* C2: GasPriceFiller.fill on a transaction whose gas price is already set
\* (status Finished) returns it unchanged, whatever the fillable.
C2_GasPriceKept ==
    (last.op = "gas.fill"
        /\ GasPriceFiller_status(last.cell, last.before) = "Finished")
        => /\ last.ret = Ok(last.before)
           /\ tx = last.before

C2_Witness ==
    /\ last.op = "gas.fill"
    /\ last.before.form = "Builder"
    /\ last.before.gas_price = Some(41)
    /\ last.fillable = Some(42)
    /\ tx.gas_price = Some(41)

\* C3: once the cache cell holds a value, every step of any call (status,
\* prepare, fill, in any interleaving) leaves that value in it.
C3_WriteOnce == [][is_some(cell) => cell' = cell]_vars

\* A call committed a price other than the one the cell already held, and a
\* fill ran after it.
C3_Witness ==
    /\ \E c \in Calls :
        /\ pc[c] = "returned"
        /\ reply[c].tag = "Ok"
        /\ ret[c].tag = "Ok"
        /\ reply[c].val # cell
    /\ last.op = "gas.fill"

\* C4: on a filler built with an empty cache, once all prepare calls have
\* completed, the calls that returned Ok all returned the same value, and that
\* value is one a provider query of these calls resolved to.
C4_OneValue ==
    (is_none(preset) /\ AllReturned)
        => /\ \A c, d \in Calls :
                (ret[c].tag = "Ok" /\ ret[d].tag = "Ok") => ret[c] = ret[d]
           /\ \A c \in Calls :
                ret[c].tag = "Ok" => \E d \in Calls : reply[d] = ret[c]

\* Two calls raced, the provider gave them different prices, both returned Ok.
C4_Witness ==
    /\ is_none(preset)
    /\ AllReturned
    /\ overlapped
    /\ \E c, d \in Calls :
        /\ reply[c].tag = "Ok" /\ reply[d].tag = "Ok"
        /\ reply[c] # reply[d]
        /\ ret[c].tag = "Ok" /\ ret[d].tag = "Ok"

\* C5: a filler built with new(Some(p)) never queries the provider, and every
\* prepare call on it returns Ok(p).
C5_PresetNoQuery ==
    is_some(preset)
        => /\ Queries = 0
           /\ \A c \in Calls :
                /\ pc[c] \in {"idle", "returned"}
                /\ pc[c] = "returned" => ret[c] = Ok(unwrap(preset))

C5_Witness ==
    /\ preset = Some(42)
    /\ AllReturned
    /\ \A c \in Calls : ret[c] = Ok(42)

C7_FailureLeavesCache ==
    /\ \A c \in Calls :
        (/\ last.op \in {"gas.prepare.resume", "gas.prepare.cancel"}
         /\ last.call = c
         /\ (reply[c].tag = "Err" \/ last.op = "gas.prepare.cancel"))
        => /\ pc[c] = "returned"
           /\ cell = last.cell
           /\ asked[c] = 1
           /\ Queries = last.queries
           /\ ret[c] = last.ret
           /\ ret[c] = IF last.op = "gas.prepare.cancel" THEN Cancelled ELSE reply[c]
    /\ \A c \in Calls :
        (last.op = "gas.prepare.start" /\ last.call = c /\ is_none(last.cell))
        => /\ pc[c] = "await"
           /\ asked[c] = 1
           /\ Queries = last.queries + 1

\* The first call failed with a transport error and left the cell empty; the
\* second call, made after it had returned, queried again and succeeded.
C7_Witness ==
    /\ ~overlapped
    /\ pc[1] = "returned"
    /\ ret[1] = Err("transport")
    /\ last.op = "gas.prepare.resume"
    /\ last.call = 2
    /\ asked[2] = 1
    /\ ret[2] = Ok(41)
    /\ cell = Some(41)
    /\ is_none(last.cell)

\* C8: fill of either filler on a finalized (non-builder) value returns Ok
\* with the value it was given, and fill returns Ok for every input.
C8_EnvelopeNoOp ==
    last.op \in {"from.fill", "gas.fill"}
        => /\ last.ret.tag = "Ok"
           /\ last.before.form = "Envelope"
                => /\ last.ret = Ok(last.before)
                   /\ tx = last.before

C8_Witness ==
    /\ last.op = "from.fill"
    /\ last.before.form = "Envelope"
    /\ is_some(last.before.from)
    /\ last.before.from # Some(address)
    /\ is_none(last.before.gas_price)
    /\ tx = last.before

\* C9: status returns Finished exactly when the field is present and Ready
\* otherwise (sender for FromFiller, gas price for GasPriceFiller), whatever
\* the configured address and the cache hold, and leaves the transaction and
\* the cache as they were.
C9_StatusPure ==
    /\ last.op = "from.status"
        => /\ last.ret = (IF is_some(last.before.from) THEN "Finished" ELSE "Ready")
           /\ tx = last.before
           /\ cell = last.cell
    /\ last.op = "gas.status"
        => /\ last.ret = (IF is_some(last.before.gas_price) THEN "Finished" ELSE "Ready")
           /\ tx = last.before
           /\ cell = last.cell

\* The cache holds a price a prepare call fetched, the transaction has none:
\* Ready.
C9_Witness ==
    /\ last.op = "gas.status"
    /\ is_none(preset)
    /\ is_some(cell)
    /\ is_none(tx.gas_price)
    /\ last.ret = "Ready"

\* C10: for every configured address, the default all-zero one included, and
\* a builder with no sender: status is Ready; prepare returns Ok(()) and makes
\* no provider query; fill returns the transaction with the sender set to the
\* configured address and nothing else changed, and status is then Finished.
C10_SenderFilled ==
    /\ (last.op = "from.status" /\ is_none(last.before.from))
        => last.ret = "Ready"
    /\ last.op = "from.prepare"
        => /\ last.ret = Ok("unit")
           /\ Queries = last.queries
    /\ (last.op = "from.fill" /\ last.before.form = "Builder"
            /\ is_none(last.before.from))
        => /\ last.ret = Ok(tx)
           /\ tx = [last.before EXCEPT !.from = Some(address)]
           /\ FromFiller_status(address, tx) = "Finished"

C10_Witness ==
    /\ address = "ZERO"
    /\ last.op = "from.fill"
    /\ last.before.form = "Builder"
    /\ is_none(last.before.from)
    /\ tx.from = Some("ZERO")
    /\ FromFiller_status(address, tx) = "Finished"

\* C12: a filler built with new(None) fetches the gas price from the provider
\* every time a transaction is prepared: every prepare call made on it issues
\* a provider query.
C12_FetchedEveryTime ==
    is_none(preset)
        => \A c \in Calls : pc[c] # "idle" => asked[c] = 1

\* C13: a call that resumes with a fetched price and finds the cell empty
\* stores its price and returns it; a call that finds the cell populated
\* leaves the cell alone and returns the stored price, not its own. The price
\* retained is that of the first commit, whichever call started first.
C13_FirstCommitWins ==
    \A c \in Calls :
        (last.op = "gas.prepare.resume" /\ last.call = c /\ reply[c].tag = "Ok")
        => IF is_none(last.cell)
           THEN cell = reply[c].val /\ ret[c] = reply[c]
           ELSE cell = last.cell /\ ret[c] = Ok(unwrap(last.cell))

\* Call 1 started first, call 2 committed first: call 1 gives up its own
\* price and returns the one call 2 stored.
C13_Witness ==
    /\ is_none(preset)
    /\ last.op = "gas.prepare.resume"
    /\ last.call = 1
    /\ reply[1] = Ok(41)
    /\ reply[2] = Ok(42)
    /\ last.cell = Some(42)
    /\ cell = Some(42)
    /\ ret[1] = Ok(42)
    /\ ret[2] = Ok(42)

\* C14: while a prepare call is suspended in its provider query, every other
\* call can take its next step (start, receive its reply, commit and return),
\* and status and fill of both fillers can be called.
C14_NoLockHeld ==
    (\E c \in Calls : pc[c] = "await")
        => /\ \A d \in Calls :
                /\ (pc[d] = "idle" /\ \A e \in Calls : e < d => pc[e] # "idle")
                    => ENABLED PrepareStart(d)
                /\ pc[d] = "await" => ENABLED ProviderReply(d)
                /\ pc[d] = "ready" => ENABLED PrepareResume(d)
           /\ tx.form = "Builder" => (ENABLED GasStatus /\ ENABLED FromStatus)
           /\ ENABLED GasFill
           /\ ENABLED FromFill

\* Call 1 is still suspended; call 2, started after it, has queried, stored
\* its price and returned, and a fill ran after that.
C14_Witness ==
    /\ pc[1] = "await"
    /\ pc[2] = "returned"
    /\ asked[2] = 1
    /\ ret[2] = Ok(42)
    /\ cell = Some(42)
    /\ last.op = "gas.fill"
    /\ tx.gas_price = Some(41)

\* C16: GasPriceFiller.fill on a builder without gas price returns it with
\* the gas price set to the fillable and nothing else changed, whatever the
\* cache holds, and leaves the cache as it was; FromFiller.fill leaves the gas
\* price as it was.
C16_OneField ==
    /\ (last.op = "gas.fill" /\ last.before.form = "Builder"
            /\ is_none(last.before.gas_price))
        => /\ last.ret = Ok(tx)
           /\ tx = [last.before EXCEPT !.gas_price = last.fillable]
           /\ cell = last.cell
    /\ last.op = "from.fill"
        => /\ tx.gas_price = last.before.gas_price
           /\ tx.form = last.before.form
           /\ cell = last.cell

\* The cache holds 41, the fillable is 42: the gas price becomes 42 and the
\* sender stays.
C16_Witness ==
    /\ last.op = "gas.fill"
    /\ last.before.form = "Builder"
    /\ is_none(last.before.gas_price)
    /\ last.before.from = Some("A")
    /\ cell = Some(41)
    /\ last.fillable = Some(42)
    /\ tx.gas_price = Some(42)
    /\ tx.from = Some("A")

\* C17: a prepare call that returned Ok(v) left the cell holding v, at its
\* return and ever after; and a populated cell holds the price given to new
\* or a price some provider query resolved to.
C17_ReturnedIsCached ==
    /\ \A c \in Calls : ret[c].tag = "Ok" => cell = ret[c].val
    /\ is_some(cell)
        => \/ cell = preset
           \/ \E c \in Calls : reply[c].tag = "Ok" /\ reply[c].val = cell

\* A call fetched 41 but returned the 42 another call had stored.
C17_Witness ==
    /\ is_none(preset)
    /\ \E c \in Calls :
        /\ pc[c] = "returned"
        /\ reply[c] = Ok(41)
        /\ ret[c] = Ok(42)
    /\ cell = Some(42)

\* The statuses of the two fillers on the run's transaction.
BothFinished ==
    /\ FromFiller_status(address, tx) = "Finished"
    /\ GasPriceFiller_status(cell, tx) = "Finished"

\* C11: in a pipeline run that follows the protocol, a field that was set on
\* the transaction before the run keeps its value in every state of the run,
\* whether the run completes, gives up or aborts on a failed prepare.
C11_UserFieldsKept ==
    pipe.phase # "off"
        => /\ is_some(pipe.orig.from) => tx.from = pipe.orig.from
           /\ is_some(pipe.orig.gas_price) => tx.gas_price = pipe.orig.gas_price
           /\ tx.form = pipe.orig.form

\* The user set a sender other than the configured address; the run filled
\* the gas price and completed.
C11_Witness ==
    /\ pipe.phase = "done"
    /\ address = "ZERO"
    /\ pipe.orig.from = Some("A")
    /\ is_none(pipe.orig.gas_price)
    /\ pipe.filled = {"gas"}
    /\ tx.from = Some("A")
    /\ tx.gas_price = Some(42)

\* C15: a pipeline run on a builder, whose provider query does not fail,
\* reaches the state where both fillers report Finished, after at most one
\* pass; and from a filler's fill on, that filler's status is Finished.
C15_Completes ==
    /\ <>(pipe.phase = "done" \/ pipe.greply.tag = "Err")
    /\ [](pipe.phase = "done" => (pipe.pass <= 1 /\ BothFinished))
    /\ []("from" \in pipe.filled => FromFiller_status(address, tx) = "Finished")
    /\ []("gas" \in pipe.filled => GasPriceFiller_status(cell, tx) = "Finished")
    /\ [](pipe.phase \in {"failed", "exhausted"} => pipe.greply.tag = "Err")

\* Neither field was set; one pass filled both, the price fetched by the run.
C15_Witness ==
    /\ pipe.phase = "done"
    /\ pipe.pass = 1
    /\ is_none(pipe.orig.from)
    /\ is_none(pipe.orig.gas_price)
    /\ pipe.filled = {"from", "gas"}
    /\ pipe.greply = Ok(41)
    /\ tx.gas_price = Some(41)
    /\ BothFinished

====
